---- MODULE Spec2Model ----
(***************************************************************************)
(* OpenPassport1StepVerifier (sdk/src/OpenPassport1Step.ts): one verifier  *)
(* instance, its report, and verify() calls that may overlap at the        *)
(* `await groth16.verify(...)` suspension point.                           *)
(*                                                                         *)
(* Representation.  A JavaScript string is a sequence of naturals (its     *)
(* characters); a decimal-string public signal is the natural it denotes;  *)
(* a big integer that does not fit a machine integer (the RSA modulus) is  *)
(* its little-endian sequence of base-2^WordBits digits.  Attribute names  *)
(* and log messages are TLA+ strings, since they are only compared.        *)
(***************************************************************************)
EXTENDS Integers, Sequences, FiniteSets, TLC

VARIABLES
    scope,          \* this.scope
    requirements,   \* this.requirements
    dev_mode,       \* this.dev_mode
    report,         \* this.report, the one OpenPassportVerifierReport of the instance
    today,          \* the clock read by getCurrentDateFormatted / verifyDSCValidity
    calls,          \* the verify() invocations: position, inputs, locals, outcome
    nav             \* the app: platform, navigation store, toasts, native scans

vars == <<scope, requirements, dev_mode, report, today, calls, nav>>

-----------------------------------------------------------------------------
(* Bounds of the model *)

MaxCalls == 2       \* verify() invocations on the instance
MaxDay == 1         \* times the clock moves on to the next day
MaxScans == 3       \* scanQRCode() invocations in the app

CallIds == 1..MaxCalls

-----------------------------------------------------------------------------
(* JavaScript values *)

\* `undefined`: what an out-of-range index yields; no signal is negative
undefined == 0 - 1

\* array[i] with a 0-based index
At(arr, i) == IF i + 1 <= Len(arr) THEN arr[i + 1] ELSE undefined

\* array.slice(from, to) with 0-based, end-exclusive indices
slice(arr, from, to) ==
    LET hi == IF to <= Len(arr) THEN to ELSE Len(arr)
    IN  IF from + 1 > hi THEN << >> ELSE SubSeq(arr, from + 1, hi)

\* the ',' that Array.prototype.toString puts between elements; not a digit
Comma == 10

RECURSIVE decimal(_)
\* Number/decimal-string to its characters (digits, most significant first)
decimal(n) == IF n < 10 THEN <<n>> ELSE decimal(n \div 10) \o <<n % 10>>

RECURSIVE arrayToString(_)
\* Array.prototype.toString(): the elements' strings joined by ','
arrayToString(arr) ==
    IF Len(arr) = 0 THEN << >>
    ELSE IF Len(arr) = 1 THEN decimal(arr[1])
    ELSE decimal(arr[1]) \o <<Comma>> \o arrayToString(Tail(arr))

-----------------------------------------------------------------------------
(* parsePublicSignals1Step *)

parsePublicSignals1Step(publicSignals) ==
    [ signature_algorithm |-> At(publicSignals, 0),
      revealedData_packed |-> <<At(publicSignals, 1), At(publicSignals, 2), At(publicSignals, 3)>>,
      nullifier           |-> At(publicSignals, 4),
      pubKey              |-> slice(publicSignals, 5, 37),
      scope               |-> At(publicSignals, 37),
      current_date        |-> slice(publicSignals, 38, 44),
      user_identifier     |-> At(publicSignals, 44) ]

-----------------------------------------------------------------------------
(* common/src/utils and common/src/constants, as verify() uses them *)

\* characters of the revealed data take values below CharBase; 0 is the
\* "not revealed" character
CharBase == 8
\* characters packed into one revealedData_packed word
CharsPerWord == 2

RECURSIVE unpackWord(_, _)
\* the k low characters of one packed word, lowest first
unpackWord(word, k) ==
    IF k = 0 THEN << >> ELSE <<word % CharBase>> \o unpackWord(word \div CharBase, k - 1)

\* unpackReveal: total, every word yields CharsPerWord positions
unpackReveal(revealedData_packed) ==
    unpackWord(revealedData_packed[1], CharsPerWord)
        \o unpackWord(revealedData_packed[2], CharsPerWord)
        \o unpackWord(revealedData_packed[3], CharsPerWord)

\* attributeToPosition: attribute name -> inclusive 0-based index range
attributeToPosition ==
    [a \in {"issuing_state", "nationality", "older_than"} |->
        CASE a = "issuing_state" -> <<0, 1>>
          [] a = "nationality"   -> <<2, 3>>
          [] a = "older_than"    -> <<4, 5>>]

\* countryCodes: observed code -> country name
countryCodes ==
    [code \in {<<1, 2>>, <<3, 4>>} |->
        IF code = <<1, 2>> THEN <<1, 2, 1>> ELSE <<3, 4, 3>>]

RECURSIVE digitsOf(_, _)
\* the base-b digits of n, most significant first (none for 0)
digitsOf(n, b) == IF n = 0 THEN << >> ELSE digitsOf(n \div b, b) \o <<n % b>>

\* castToScope: the scope signal decoded into the scope string
castToScope(num) == digitsOf(num, CharBase)

\* bigIntToHex(BigInt(decimalString)): hex digits, most significant first
bigIntToHex(n) == IF n = 0 THEN <<0>> ELSE digitsOf(n, 16)

\* getCurrentDateFormatted: the day as six YYMMDD digit words
getCurrentDateFormatted(day) == <<2, 4, 0, 1, day \div 10, day % 10>>

\* first day of the model's clock
FirstDay == 9

\* bits per word and words per modulus of the circuit (verify, line 113)
WordBits == 64
WordCount == 32

\* splitToWords(x, n, k): the k low base-2^n digits of x, lowest first.
\* x is held as its base-2^WordBits digits, so n must be WordBits.
splitToWords(x, n, k) ==
    [i \in 1..k |-> IF n = WordBits /\ i <= Len(x) THEN x[i] ELSE 0]

\* the document-signer certificates the requests choose from, by PEM text.
\*   algorithm: what getSignatureAlgorithm extracts ("" when it cannot parse)
\*   rsa:       whether forge.pki.certificateFromPem can build the certificate
\*   notBefore, notAfter: validity window, in days
\*   n:         publicKey.n
Pems == {"good", "expired", "eckey", "md5", "garbage"}
Modulus == [i \in 1..WordCount |-> (i * i) % 5]
Certificates ==
    [pem \in Pems |->
        [ algorithm |-> CASE pem = "garbage" -> ""
                          [] pem = "md5"     -> "rsa_md5"
                          [] OTHER           -> "rsa_sha256",
          rsa       |-> pem \in {"good", "expired", "md5"},
          notBefore |-> 1,
          notAfter  |-> IF pem = "expired" THEN FirstDay - 1 ELSE 28,
          n         |-> Modulus ]]

\* results of the steps that can throw
Thrown(error) == [thrown |-> TRUE, error |-> error]
Value(v) == [thrown |-> FALSE, value |-> v]

\* getSignatureAlgorithm(dsc)
getSignatureAlgorithm(dsc) ==
    IF Certificates[dsc].algorithm = ""
    THEN Thrown("CertificateParseError")
    ELSE Value([signatureAlgorithm |-> "rsa", hashFunction |-> IF Certificates[dsc].algorithm = "rsa_md5" THEN "md5" ELSE "sha256"])

\* getVkey(circuit, signatureAlgorithm, hashFunction)
getVkey(circuit, signatureAlgorithm, hashFunction) ==
    IF circuit = "prove" /\ signatureAlgorithm = "rsa" /\ hashFunction = "sha256"
    THEN Value("vkey_prove_rsa_65537_sha256")
    ELSE Thrown("UnknownVerificationKey")

\* forge.pki.certificateFromPem(dsc)
certificateFromPem(dsc) ==
    IF Certificates[dsc].rsa THEN Value(Certificates[dsc]) ELSE Thrown("CertificateParseError")

\* verifyDSCValidity(certificate, dev_mode): the window covers the current
\* day; dev mode bypasses the window
verifyDSCValidity(certificate, dev, day) ==
    dev \/ (certificate.notBefore <= day /\ day <= certificate.notAfter)

\* new OpenPassportVerifierReport()
NewReport == [failed |-> {}, nullifier |-> << >>, user_identifier |-> << >>]

\* one failed-attribute entry, as report.exposeAttribute(attribute, value, expectedValue) records it
Entry(attribute, value, expectedValue) ==
    [attribute |-> attribute, value |-> value, expectedValue |-> expectedValue]

\* report.exposeAttribute(...)
exposeAttribute(rep, attribute, value, expectedValue) ==
    [rep EXCEPT !.failed = @ \cup {Entry(attribute, value, expectedValue)}]

-----------------------------------------------------------------------------
(* verify(): the locals of one invocation *)

\* new OpenPassport1StepInputs({}): what a call holds before it is made
NoInputs == [dsc |-> "", circuit |-> "", publicSignals |-> << >>]

\* console.log of one check
Line(msg, arg) == [msg |-> msg, arg |-> arg]

\* a call not yet made.
\*   pc:       "idle", "awaiting" (suspended at line 93), "settled" (the
\*             groth16 promise is settled, the continuation not yet run),
\*             "returned", "thrown"
\*   groth16:  "none", "pending", "true", "false", "rejected"
\*   now:      what getCurrentDateFormatted() returned at line 60
\*   exposed:  the entries this call passed to report.exposeAttribute
\*   log:      the console.log lines of this call
\*   result:   the report as it was when the call returned it
\*   overlapped: whether another call was suspended while this one ran
\*   before:   this.report as it was when the call was made
IdleCall ==
    [ pc |-> "idle", inputs |-> NoInputs, groth16 |-> "none", now |-> << >>,
      exposed |-> {}, log |-> << >>, result |-> NewReport, error |-> "",
      overlapped |-> FALSE, before |-> NewReport ]

\* the running state of the synchronous part of a call: the shared report,
\* and the call's own trace
Running(rep, call) == [rep |-> rep, exposed |-> call.exposed, log |-> call.log]

\* this.report.exposeAttribute(attribute, value, expectedValue) inside a call
Expose(st, attribute, value, expectedValue) ==
    [st EXCEPT !.rep = exposeAttribute(@, attribute, value, expectedValue),
               !.exposed = @ \cup {Entry(attribute, value, expectedValue)}]

\* console.log(...) inside a call
Log(st, msg, arg) == [st EXCEPT !.log = Append(@, Line(msg, arg))]

\* lines 53-57: 1. Verify the scope
CheckScope(st, parsed, configured) ==
    Log(IF castToScope(parsed.scope) # configured
        THEN Expose(st, "scope", <<parsed.scope>>, configured)
        ELSE st,
        "scope verified", "")

\* CheckCurrentDate comparing the year and month words only
CheckCurrentDateYearMonth(st, parsed, day) ==
    Log(IF arrayToString(slice(parsed.current_date, 0, 4))
             # arrayToString(slice(getCurrentDateFormatted(day), 0, 4))
        THEN Expose(st, "current_date", parsed.current_date, getCurrentDateFormatted(day))
        ELSE st,
        "current_date verified", "")

\* lines 59-67: 4. Verify the current_date
CheckCurrentDate(st, parsed, day) ==
    Log(IF arrayToString(parsed.current_date) # arrayToString(getCurrentDateFormatted(day))
        THEN Expose(st, "current_date", parsed.current_date, getCurrentDateFormatted(day))
        ELSE st,
        "current_date verified", "")

RECURSIVE attributeValueOf(_, _, _)
\* lines 75-78: the characters of unpackedReveal from position i to last
attributeValueOf(unpackedReveal, i, last) ==
    IF i > last THEN << >>
    ELSE <<At(unpackedReveal, i)>> \o attributeValueOf(unpackedReveal, i + 1, last)

\* RequirementFails letting a code that countryCodes does not hold pass
RequirementFailsKnownCodesOnly(attribute, attributeValue, value) ==
    IF attribute = "nationality" \/ attribute = "issuing_state"
    THEN /\ attributeValue \in DOMAIN countryCodes
         /\ countryCodes[attributeValue] # value
    ELSE attributeValue # value

\* lines 79-87: whether one requirement is unmet
RequirementFails(attribute, attributeValue, value) ==
    IF attribute = "nationality" \/ attribute = "issuing_state"
    THEN \/ attributeValue \notin DOMAIN countryCodes
         \/ countryCodes[attributeValue] = << >>
         \/ countryCodes[attributeValue] # value
    ELSE attributeValue # value

RECURSIVE CheckRequirementsUntilFailure(_, _, _)
\* CheckRequirements leaving the loop at the first unmet requirement
CheckRequirementsUntilFailure(st, reqs, unpackedReveal) ==
    IF Len(reqs) = 0 THEN [thrown |-> FALSE, error |-> "", st |-> st]
    ELSE LET requirement == Head(reqs)
             attribute == requirement[1]
             value == requirement[2]
         IN  IF attribute \notin DOMAIN attributeToPosition
             THEN [thrown |-> TRUE, error |-> "TypeError", st |-> st]
             ELSE LET position == attributeToPosition[attribute]
                      attributeValue == attributeValueOf(unpackedReveal, position[1], position[2])
                  IN  IF RequirementFails(attribute, attributeValue, value)
                      THEN [thrown |-> FALSE, error |-> "",
                            st |-> Log(Expose(st, attribute, << >>, << >>),
                                       "requirement verified", attribute)]
                      ELSE CheckRequirementsUntilFailure(
                               Log(st, "requirement verified", attribute),
                               Tail(reqs), unpackedReveal)

RECURSIVE CheckRequirementsCountryDetails(_, _, _)
\* CheckRequirements passing the observed and expected values to
\* exposeAttribute on the country-code path
CheckRequirementsCountryDetails(st, reqs, unpackedReveal) ==
    IF Len(reqs) = 0 THEN [thrown |-> FALSE, error |-> "", st |-> st]
    ELSE LET requirement == Head(reqs)
             attribute == requirement[1]
             value == requirement[2]
         IN  IF attribute \notin DOMAIN attributeToPosition
             THEN [thrown |-> TRUE, error |-> "TypeError", st |-> st]
             ELSE LET position == attributeToPosition[attribute]
                      attributeValue == attributeValueOf(unpackedReveal, position[1], position[2])
                      st2 == IF RequirementFails(attribute, attributeValue, value)
                             THEN IF attribute = "nationality" \/ attribute = "issuing_state"
                                  THEN Expose(st, attribute, attributeValue, value)
                                  ELSE Expose(st, attribute, << >>, << >>)
                             ELSE st
                  IN  CheckRequirementsCountryDetails(
                          Log(st2, "requirement verified", attribute),
                          Tail(reqs), unpackedReveal)

RECURSIVE CheckRequirements(_, _, _)
\* lines 70-89: 5. Verify requirements.  An attribute that attributeToPosition
\* does not hold makes position[0] throw a TypeError in the middle of the loop.
CheckRequirements(st, reqs, unpackedReveal) ==
    IF Len(reqs) = 0 THEN [thrown |-> FALSE, error |-> "", st |-> st]
    ELSE LET requirement == Head(reqs)
             attribute == requirement[1]
             value == requirement[2]
         IN  IF attribute \notin DOMAIN attributeToPosition
             THEN [thrown |-> TRUE, error |-> "TypeError", st |-> st]
             ELSE LET position == attributeToPosition[attribute]
                      attributeValue == attributeValueOf(unpackedReveal, position[1], position[2])
                      st2 == IF RequirementFails(attribute, attributeValue, value)
                             THEN Expose(st, attribute, << >>, << >>)
                             ELSE st
                  IN  CheckRequirements(Log(st2, "requirement verified", attribute),
                                        Tail(reqs), unpackedReveal)

\* VerifyToAwait stopping at the first failed check (a scope mismatch)
VerifyToAwaitFailFast(rep, call, inputs, configured, reqs, day) ==
    LET st0 == Running(rep, call)
        alg == getSignatureAlgorithm(inputs.dsc)
    IN  IF alg.thrown THEN [thrown |-> TRUE, error |-> alg.error, st |-> st0]
        ELSE
        LET vkey == getVkey(inputs.circuit, alg.value.signatureAlgorithm, alg.value.hashFunction)
        IN  IF vkey.thrown THEN [thrown |-> TRUE, error |-> vkey.error, st |-> st0]
            ELSE
            LET parsed == parsePublicSignals1Step(inputs.publicSignals)
                st1 == CheckScope(st0, parsed, configured)
                st2 == CheckCurrentDate(st1, parsed, day)
            IN  IF castToScope(parsed.scope) # configured
                THEN [thrown |-> FALSE, error |-> "", st |-> st1]
                ELSE CheckRequirements(st2, reqs, unpackReveal(parsed.revealedData_packed))

\* VerifyToAwait parsing the signals and checking the scope before it
\* resolves the verification key
VerifyToAwaitLateKey(rep, call, inputs, configured, reqs, day) ==
    LET st0 == Running(rep, call)
        parsed == parsePublicSignals1Step(inputs.publicSignals)
        st1 == CheckScope(st0, parsed, configured)
        alg == getSignatureAlgorithm(inputs.dsc)
    IN  IF alg.thrown THEN [thrown |-> TRUE, error |-> alg.error, st |-> st1]
        ELSE
        LET vkey == getVkey(inputs.circuit, alg.value.signatureAlgorithm, alg.value.hashFunction)
        IN  IF vkey.thrown THEN [thrown |-> TRUE, error |-> vkey.error, st |-> st1]
            ELSE
            LET st2 == CheckCurrentDate(st1, parsed, day)
            IN  CheckRequirements(st2, reqs, unpackReveal(parsed.revealedData_packed))

\* VerifyToAwait starting from a report of its own making
VerifyToAwaitFreshReport(rep, call, inputs, configured, reqs, day) ==
    LET st0 == Running(NewReport, call)
        alg == getSignatureAlgorithm(inputs.dsc)
    IN  IF alg.thrown THEN [thrown |-> TRUE, error |-> alg.error, st |-> st0]
        ELSE
        LET vkey == getVkey(inputs.circuit, alg.value.signatureAlgorithm, alg.value.hashFunction)
        IN  IF vkey.thrown THEN [thrown |-> TRUE, error |-> vkey.error, st |-> st0]
            ELSE
            LET parsed == parsePublicSignals1Step(inputs.publicSignals)
                st1 == CheckScope(st0, parsed, configured)
                st2 == CheckCurrentDate(st1, parsed, day)
            IN  CheckRequirements(st2, reqs, unpackReveal(parsed.revealedData_packed))

\* lines 48-97: verify() from its entry to the suspension at `await
\* groth16.verify(...)`, run on the report rep by a call in state call.
\* Yields the report, the call's trace, and the error if it threw.
VerifyToAwait(rep, call, inputs, configured, reqs, day) ==
    LET st0 == Running(rep, call)
        alg == getSignatureAlgorithm(inputs.dsc)
    IN  IF alg.thrown THEN [thrown |-> TRUE, error |-> alg.error, st |-> st0]
        ELSE
        LET vkey == getVkey(inputs.circuit, alg.value.signatureAlgorithm, alg.value.hashFunction)
        IN  IF vkey.thrown THEN [thrown |-> TRUE, error |-> vkey.error, st |-> st0]
            ELSE
            LET parsed == parsePublicSignals1Step(inputs.publicSignals)
                st1 == CheckScope(st0, parsed, configured)
                st2 == CheckCurrentDate(st1, parsed, day)
            IN  CheckRequirements(st2, reqs, unpackReveal(parsed.revealedData_packed))

\* areArraysEqual (lines 116-117)
areArraysEqual(arr1, arr2) ==
    Len(arr1) = Len(arr2) /\ \A index \in 1..Len(arr1) : arr1[index] = arr2[index]

\* lines 98-101: the proof verifier's answer
CheckProof(st, verified_prove) ==
    Log(IF ~verified_prove THEN Expose(st, "proof", << >>, << >>) ELSE st,
        "proof verified", "")

\* ExtractIdentifiers writing the nullifier into both fields
ExtractIdentifiersNullifierTwice(st, parsed) ==
    IF parsed.nullifier = undefined \/ parsed.user_identifier = undefined
    THEN [thrown |-> TRUE, error |-> "TypeError", st |-> st]
    ELSE [thrown |-> FALSE, error |-> "",
          st |-> [st EXCEPT !.rep.nullifier = bigIntToHex(parsed.nullifier),
                            !.rep.user_identifier = bigIntToHex(parsed.nullifier)]]

\* lines 103-104: nullifier and user identifier; BigInt(undefined) throws
\* a TypeError, the nullifier being written before the user identifier
ExtractIdentifiers(st, parsed) ==
    IF parsed.nullifier = undefined
    THEN [thrown |-> TRUE, error |-> "TypeError", st |-> st]
    ELSE LET st1 == [st EXCEPT !.rep.nullifier = bigIntToHex(parsed.nullifier)]
         IN  IF parsed.user_identifier = undefined
             THEN [thrown |-> TRUE, error |-> "TypeError", st |-> st1]
             ELSE [thrown |-> FALSE, error |-> "",
                   st |-> [st1 EXCEPT !.rep.user_identifier = bigIntToHex(parsed.user_identifier)]]

\* lines 106-120: 7. Verify the dsc, and the modulus comparison.  Both
\* results go to the console only.
CheckCertificate(st, inputs, parsed, dev, day) ==
    LET cert == certificateFromPem(inputs.dsc)
    IN  IF cert.thrown THEN [thrown |-> TRUE, error |-> cert.error, st |-> st]
        ELSE
        LET verified_certificate == verifyDSCValidity(cert.value, dev, day)
            dsc_modulus_words == splitToWords(cert.value.n, WordBits, WordCount)
            modulus_from_proof == parsed.pubKey
            verified_modulus == areArraysEqual(dsc_modulus_words, modulus_from_proof)
        IN  [thrown |-> FALSE, error |-> "",
             st |-> Log(Log(st, "certificate verified", IF verified_certificate THEN "true" ELSE "false"),
                        "modulus verified", IF verified_modulus THEN "true" ELSE "false")]

\* VerifyFromAwait catching a rejection of the proof verifier and recording
\* it as a failed proof
VerifyFromAwaitCatching(rep, call, dev, day) ==
    LET st0 == Running(rep, call)
        parsed == parsePublicSignals1Step(call.inputs.publicSignals)
        ids == ExtractIdentifiers(CheckProof(st0, call.groth16 = "true"), parsed)
    IN  IF ids.thrown THEN ids
        ELSE CheckCertificate(ids.st, call.inputs, parsed, dev, day)

\* VerifyFromAwait throwing on a proof the verifier rejects as invalid
VerifyFromAwaitThrowing(rep, call, dev, day) ==
    LET st0 == Running(rep, call)
        parsed == parsePublicSignals1Step(call.inputs.publicSignals)
    IN  IF call.groth16 \in {"rejected", "false"}
        THEN [thrown |-> TRUE, error |-> "ProofVerifierError", st |-> st0]
        ELSE
        LET ids == ExtractIdentifiers(CheckProof(st0, call.groth16 = "true"), parsed)
        IN  IF ids.thrown THEN ids
            ELSE CheckCertificate(ids.st, call.inputs, parsed, dev, day)

\* lines 98-121: verify() from the resumption after the await to its return
VerifyFromAwait(rep, call, dev, day) ==
    LET st0 == Running(rep, call)
        parsed == parsePublicSignals1Step(call.inputs.publicSignals)
    IN  IF call.groth16 = "rejected"
        THEN [thrown |-> TRUE, error |-> "ProofVerifierError", st |-> st0]
        ELSE
        LET ids == ExtractIdentifiers(CheckProof(st0, call.groth16 = "true"), parsed)
        IN  IF ids.thrown THEN ids
            ELSE CheckCertificate(ids.st, call.inputs, parsed, dev, day)

-----------------------------------------------------------------------------
(* The app's QR scanner (qrCode.ts) *)

\* the apps a payload can reconstruct into, and no app selected
Apps == {"appA", "appB"}
NoApp == "none"

\* toast.show(title, {message, type, customData: {type}})
Toast(title, message, type, customType) ==
    [title |-> title, message |-> message, type |-> type, customType |-> customType]

\* the app as launched on Platform.OS = os, with or without the native
\* scanner module.
\*   selectedApp, selectedTab: the navigation store
\*   toasts:  the notifications shown, in order
\*   pending: the native scanQRCode() promises not yet settled
\*   started: the scanQRCode() invocations so far
\*   ops:     the store operations of the latest handler, in order
\*   handled: the payloads handleQRCodeScan was given (console.log, line 53),
\*            each with what reconstructAppType yields for it
Launched(os, module) ==
    [ os |-> os, module |-> module, selectedApp |-> NoApp, selectedTab |-> "scan",
      toasts |-> << >>, pending |-> 0, started |-> 0, ops |-> << >>, handled |-> << >> ]

\* the operations scanQRCode reads from useNavigationStore.getState() (line 6)
toastShow(nv, toast) ==
    [nv EXCEPT !.toasts = Append(@, toast), !.ops = Append(@, "toast.show")]
setSelectedApp(nv, app) ==
    [nv EXCEPT !.selectedApp = app, !.ops = Append(@, "setSelectedApp")]
setSelectedTab(nv, tab) ==
    [nv EXCEPT !.selectedTab = tab, !.ops = Append(@, "setSelectedTab")]

\* the texts a scan yields: one that is not JSON, and one that is
Payloads == {"garbage", "json"}

\* JSON.parse(result) (line 54)
JSONparse(result) == IF result = "garbage" THEN Thrown("SyntaxError") ELSE Value(result)

\* reconstructAppType(parsedJson) (line 55): it returns an app or throws
ReconstructOutcomes == {Thrown("TypeError")} \cup {Value(app) : app \in Apps}

\* one handled payload: the text, and the app it reconstructs into (NoApp
\* when reconstructAppType throws)
Scanned(result, reconstructed) ==
    [result |-> result,
     app |-> IF reconstructed.thrown THEN NoApp ELSE reconstructed.value]

\* handleQRCodeScan setting the tab before it parses the payload
handleQRCodeScanTabFirst(nv, result, reconstructed) ==
    LET nv0 == setSelectedTab([nv EXCEPT !.ops = << >>,
                                         !.handled = Append(@, Scanned(result, reconstructed))],
                              "prove")
        parsedJson == JSONparse(result)
    IN  IF parsedJson.thrown \/ reconstructed.thrown
        THEN toastShow(nv0, Toast("Error", "QR code parsing failed", "", "error"))
        ELSE toastShow(setSelectedApp(nv0, reconstructed.value),
                       Toast("check mark", "QR code scanned", "", "success"))

\* handleQRCodeScan (lines 51-73); reconstructed is what reconstructAppType
\* yields if it is reached
handleQRCodeScan(nv, result, reconstructed) ==
    LET nv0 == [nv EXCEPT !.ops = << >>,
                          !.handled = Append(@, Scanned(result, reconstructed))]
        parsedJson == JSONparse(result)
    IN  IF parsedJson.thrown \/ reconstructed.thrown
        THEN \* catch (lines 64-72)
             toastShow(nv0, Toast("Error", "QR code parsing failed", "", "error"))
        ELSE \* lines 56-63
             toastShow(setSelectedTab(setSelectedApp(nv0, reconstructed.value), "prove"),
                       Toast("check mark", "QR code scanned", "", "success"))

-----------------------------------------------------------------------------
(* The requests and configurations the calls are made with *)

\* configured scope, and the scope signal that decodes to it
ConfiguredScope == <<1, 2>>
ScopeSignal == 10

\* deviations of a request from the valid one
Deviations ==
    { "scope", "date", "requirement", "pubKey", "expired",     \* reportable
      "eckey", "garbage", "circuit",                             \* fatal
      "len44", "len46" }                                         \* arity
Semantic == {"scope", "date", "requirement", "pubKey", "expired"}
DeviationSets ==
    {{}} \cup {{d} : d \in Deviations} \cup {Semantic} \cup {{"scope", "circuit"}}

\* the holders whose credentials are presented
Holders == {1, 2}

\* dscProof.publicSignals of the request of holder h with deviations D, made on day
PublicSignals(D, h, day) ==
    LET revealed == <<17, IF "requirement" \in D THEN 35 ELSE 17, 62>>
        words == splitToWords(Modulus, WordBits, WordCount)
        pubKey == IF "pubKey" \in D THEN [words EXCEPT ![WordCount] = @ + 1] ELSE words
        sc == IF "scope" \in D THEN ScopeSignal + 1 ELSE ScopeSignal
        date == getCurrentDateFormatted(IF "date" \in D THEN FirstDay - 1 ELSE day)
        all == <<1>> \o revealed \o <<170 + h>> \o pubKey \o <<sc>> \o date \o <<4000 + h>>
    IN  CASE "len44" \in D -> SubSeq(all, 1, 44)
          [] "len46" \in D -> Append(all, 0)
          [] OTHER -> all

\* new OpenPassport1StepInputs({dscProof, dsc, circuit})
Inputs(D, h, day) ==
    [ dsc |-> CASE "garbage" \in D -> "garbage"
                [] "md5" \in D     -> "md5"
                [] "eckey" \in D   -> "eckey"
                [] "expired" \in D -> "expired"
                [] OTHER           -> "good",
      circuit |-> IF "circuit" \in D THEN "unknown" ELSE "prove",
      publicSignals |-> PublicSignals(D, h, day) ]

\* every deviation set for the first holder; the valid request and the one
\* with every reportable deviation for the others
Requests(day) ==
    {Inputs(D, 1, day) : D \in DeviationSets}
        \cup {Inputs(D, h, day) : D \in {{}, Semantic}, h \in Holders}

\* the constructor's options: requirements and dev_mode
Options ==
    { [requirements |-> << <<"nationality", <<1, 2, 1>>>>, <<"older_than", <<6, 7>>>> >>,
       dev_mode |-> FALSE],
      [requirements |-> << >>, dev_mode |-> TRUE] }

-----------------------------------------------------------------------------
(* The verifier *)

\* constructor (lines 30-43)
Init ==
    /\ scope = ConfiguredScope
    /\ \E options \in Options :
          /\ requirements = options.requirements
          /\ dev_mode = options.dev_mode
    /\ report = NewReport
    /\ today = FirstDay
    /\ calls = [c \in CallIds |-> IdleCall]
    /\ nav = Launched("ios", TRUE)

\* the calls suspended at the await
Suspended == {d \in CallIds : calls[d].pc \in {"awaiting", "settled"}}

\* verify(inputs) is called and runs to `await groth16.verify(...)`, or throws
VerifyBegin(c, inputs) ==
    /\ calls[c].pc = "idle"
    /\ \A d \in CallIds : d < c => calls[d].pc # "idle"
    /\ LET r == VerifyToAwait(report, calls[c], inputs, scope, requirements, today)
           mine == [calls[c] EXCEPT
                      !.pc = IF r.thrown THEN "thrown" ELSE "awaiting",
                      !.inputs = inputs,
                      !.groth16 = IF r.thrown THEN "none" ELSE "pending",
                      !.now = getCurrentDateFormatted(today),
                      !.exposed = r.st.exposed,
                      !.log = r.st.log,
                      !.error = r.error,
                      !.overlapped = Suspended # {},
                      !.before = report]
       IN  /\ report' = r.st.rep
           /\ calls' = [d \in CallIds |->
                          IF d = c THEN mine
                          ELSE IF d \in Suspended THEN [calls[d] EXCEPT !.overlapped = TRUE]
                          ELSE calls[d]]
    /\ UNCHANGED <<scope, requirements, dev_mode, today, nav>>

\* groth16.verify resolves with a boolean
Groth16Resolve(c, verified_prove) ==
    /\ calls[c].pc = "awaiting"
    /\ calls' = [calls EXCEPT ![c].pc = "settled",
                              ![c].groth16 = IF verified_prove THEN "true" ELSE "false"]
    /\ UNCHANGED <<scope, requirements, dev_mode, report, today, nav>>

\* groth16.verify rejects
Groth16Reject(c) ==
    /\ calls[c].pc = "awaiting"
    /\ calls' = [calls EXCEPT ![c].pc = "settled", ![c].groth16 = "rejected"]
    /\ UNCHANGED <<scope, requirements, dev_mode, report, today, nav>>

\* the continuation of verify() after the await runs to the return, or throws
VerifyResume(c) ==
    /\ calls[c].pc = "settled"
    /\ LET r == VerifyFromAwait(report, calls[c], dev_mode, today)
       IN  /\ report' = r.st.rep
           /\ calls' = [calls EXCEPT
                          ![c].pc = IF r.thrown THEN "thrown" ELSE "returned",
                          ![c].exposed = r.st.exposed,
                          ![c].log = r.st.log,
                          ![c].error = r.error,
                          ![c].result = IF r.thrown THEN @ ELSE r.st.rep]
    /\ UNCHANGED <<scope, requirements, dev_mode, today, nav>>

\* midnight passes
Tick ==
    /\ today < FirstDay + MaxDay
    /\ today' = today + 1
    /\ UNCHANGED <<scope, requirements, dev_mode, report, calls, nav>>

Next ==
    \/ \E c \in CallIds : \E inputs \in Requests(today) : VerifyBegin(c, inputs)
    \/ \E c \in CallIds : \E verified_prove \in BOOLEAN : Groth16Resolve(c, verified_prove)
    \/ \E c \in CallIds : Groth16Reject(c)
    \/ \E c \in CallIds : VerifyResume(c)
    \/ Tick

Spec == Init /\ [][Next]_vars

-----------------------------------------------------------------------------
(* One call on a fresh verifier, over the requirement lists and the         *)
(* revealed data                                                            *)

MaxRequirements == 2    \* requirements in options.requirements

\* the requirements the lists are made of; "height" is no key of
\* attributeToPosition
RequirementPool ==
    { <<"nationality", <<1, 2, 1>>>>, <<"nationality", <<3, 4, 3>>>>,
      <<"issuing_state", <<1, 2, 1>>>>, <<"older_than", <<6, 7>>>>,
      <<"height", <<1>>>> }

\* options.requirements: the lists of distinct requirements
RequirementLists ==
    UNION { {l \in [1..n -> RequirementPool] : \A i, j \in 1..n : i # j => l[i] # l[j]} :
            n \in 0..MaxRequirements }

\* the revealed characters of the three attributes; <<5, 5>> is no key of
\* countryCodes, <<0, 0>> is not revealed
RevealedData ==
    { [issuing_state |-> i, nationality |-> n, older_than |-> o] :
        i \in {<<1, 2>>, <<5, 5>>},
        n \in {<<1, 2>>, <<3, 4>>, <<5, 5>>, <<0, 0>>},
        o \in {<<6, 7>>, <<7, 6>>} }

\* one revealedData_packed word holding the characters chars, lowest first
packWord(chars) == chars[1] + CharBase * chars[2]

\* the valid request of the first holder, revealing the data revealed
RevealRequests(day) ==
    { [Inputs({}, 1, day) EXCEPT
          !.publicSignals[2] = packWord(revealed.issuing_state),
          !.publicSignals[3] = packWord(revealed.nationality),
          !.publicSignals[4] = packWord(revealed.older_than)] :
      revealed \in RevealedData }

\* constructor (lines 30-43), over the requirement lists
InitReq ==
    /\ scope = ConfiguredScope
    /\ requirements \in RequirementLists
    /\ dev_mode = FALSE
    /\ report = NewReport
    /\ today = FirstDay
    /\ calls = [c \in CallIds |-> IdleCall]
    /\ nav = Launched("ios", TRUE)

NextReq ==
    \/ \E inputs \in RevealRequests(today) : VerifyBegin(1, inputs)
    \/ \E verified_prove \in BOOLEAN : Groth16Resolve(1, verified_prove)
    \/ Groth16Reject(1)
    \/ VerifyResume(1)

SpecReq == InitReq /\ [][NextReq]_vars

-----------------------------------------------------------------------------
(* The app's scanner: scanQRCode and the settling of the native promise *)

Platforms == {"ios", "android", "web"}

InitQR ==
    /\ scope = ConfiguredScope
    /\ requirements = << >>
    /\ dev_mode = FALSE
    /\ report = NewReport
    /\ today = FirstDay
    /\ calls = [c \in CallIds |-> IdleCall]
    /\ \E os \in Platforms : \E module \in BOOLEAN : nav = Launched(os, module)

\* scanQRCode() (lines 5-49)
ScanQRCode ==
    /\ nav.started < MaxScans
    /\ nav' =
         LET nv == [nav EXCEPT !.started = @ + 1]
         IN  IF nav.os \in {"ios", "android"}
             THEN IF nav.module
                  THEN [nv EXCEPT !.pending = @ + 1]
                  ELSE [nv EXCEPT !.toasts =
                           Append(@, Toast("Error", "QR Scanner not available", "error", ""))]
             ELSE nv
    /\ UNCHANGED <<scope, requirements, dev_mode, report, today, calls>>

\* the native scanQRCode() promise resolves with result: the .then callback
\* (lines 11-13, 31-33)
ScannerResolve(result, reconstructed) ==
    /\ nav.pending > 0
    /\ nav' = handleQRCodeScan([nav EXCEPT !.pending = @ - 1], result, reconstructed)
    /\ UNCHANGED <<scope, requirements, dev_mode, report, today, calls>>

\* the native scanQRCode() promise rejects: the .catch callback (lines 14-20, 34-40)
ScannerReject ==
    /\ nav.pending > 0
    /\ nav' = [nav EXCEPT !.pending = @ - 1,
                          !.ops = << >>,
                          !.toasts = Append(@, Toast("Error", "Failed to scan QR code", "error", ""))]
    /\ UNCHANGED <<scope, requirements, dev_mode, report, today, calls>>

NextQR ==
    \/ ScanQRCode
    \/ \E result \in Payloads : \E reconstructed \in ReconstructOutcomes :
          ScannerResolve(result, reconstructed)
    \/ ScannerReject

SpecQR == InitQR /\ [][NextQR]_vars

-----------------------------------------------------------------------------
(* Vocabulary of the properties *)

Returned(c) == calls[c].pc = "returned"
Ended(c) == calls[c].pc \in {"returned", "thrown"}

\* the parsed public signals of call c's request
Parsed(c) == parsePublicSignals1Step(calls[c].inputs.publicSignals)

\* the attribute names of a report's failed-attribute entries
FailedAttributes(rep) == {e.attribute : e \in rep.failed}

\* call c logged msg / logged msg with arg
Logged(c, msg) == \E i \in 1..Len(calls[c].log) : calls[c].log[i].msg = msg
LoggedWith(c, msg, arg) == \E i \in 1..Len(calls[c].log) : calls[c].log[i] = Line(msg, arg)

\* the checks of call c's request that fail
ScopeDiffers(c) == castToScope(Parsed(c).scope) # scope
DateDiffers(c) == Parsed(c).current_date # calls[c].now
ModulusDiffers(c) ==
    Parsed(c).pubKey # splitToWords(Certificates[calls[c].inputs.dsc].n, WordBits, WordCount)
CertificateInvalid(c) == LoggedWith(c, "certificate verified", "false")
UnmetRequirements(c) ==
    {i \in 1..Len(requirements) :
        LET position == attributeToPosition[requirements[i][1]]
        IN  RequirementFails(requirements[i][1],
                attributeValueOf(unpackReveal(Parsed(c).revealedData_packed), position[1], position[2]),
                requirements[i][2])}

-----------------------------------------------------------------------------
(* C1: whenever the 32 public-key words of a request differ from the        *)
(* certificate modulus re-encoded as 32 words of 64 bits, the report that   *)
(* verify returns contains a failed-attribute entry "modulus".              *)
ModulusMismatchReported ==
    \A c \in CallIds :
        Returned(c) /\ ModulusDiffers(c) => "modulus" \in FailedAttributes(calls[c].result)

(* C2: whenever the certificate validity check returns false, verify does   *)
(* not throw, the returned report contains a failed-attribute entry for the *)
(* certificate, and the modulus comparison still runs.                      *)
CertificateInvalidReported ==
    \A c \in CallIds :
        CertificateInvalid(c) =>
            /\ Returned(c)
            /\ Logged(c, "modulus verified")
            /\ \E a \in {"certificate", "dsc"} : a \in FailedAttributes(calls[c].result)

(* C3: the report a call returns holds failed-attribute entries only for    *)
(* checks that failed on that call's own request; a call with a fully valid *)
(* request returns none, whatever earlier calls recorded.                   *)
ReportCallLocal ==
    \A c \in CallIds :
        Returned(c) /\ ~calls[c].overlapped => calls[c].result.failed \subseteq calls[c].exposed

\* the report call c would return if it ran alone on a verifier of its own
AloneReport(c) ==
    [ failed |-> calls[c].exposed,
      nullifier |-> bigIntToHex(Parsed(c).nullifier),
      user_identifier |-> bigIntToHex(Parsed(c).user_identifier) ]

(* C4: a call that overlapped another at the proof-verification suspension  *)
(* point returns the report it would return if it ran alone.                *)
OverlappingCallsDoNotInterfere ==
    \A c \in CallIds :
        Returned(c) /\ calls[c].overlapped => calls[c].result = AloneReport(c)

(* C5: a request whose public-signal sequence does not have 45 elements     *)
(* produces no report: verify aborts with MalformedSignals.                 *)
SignalArityEnforced ==
    \A c \in CallIds :
        calls[c].pc # "idle" /\ Len(calls[c].inputs.publicSignals) # 45 =>
            /\ ~Returned(c)
            /\ calls[c].pc = "thrown" => calls[c].error = "MalformedSignals"

\* call c's request is valid in every respect
ValidRequest(c) ==
    /\ ~ScopeDiffers(c)
    /\ ~DateDiffers(c)
    /\ UnmetRequirements(c) = {}
    /\ calls[c].groth16 = "true"
    /\ LoggedWith(c, "certificate verified", "true")
    /\ ~ModulusDiffers(c)

(* C6: for every valid request verify returns a report with zero failed     *)
(* attributes and a non-empty nullifier and user identifier.                *)
ValidRequestPasses ==
    \A c \in CallIds :
        Returned(c) /\ ValidRequest(c) =>
            /\ calls[c].result.failed = {}
            /\ calls[c].result.nullifier # << >>
            /\ calls[c].result.user_identifier # << >>

(* C7: when the scope signal of a request differs from the configured       *)
(* scope, the returned report contains a "scope" failure, and the date,     *)
(* requirement, proof, certificate and modulus checks were all executed in  *)
(* that call, with their own failures recorded.                             *)
ScopeMismatchReported ==
    \A c \in CallIds :
        Returned(c) /\ ScopeDiffers(c) =>
            /\ Entry("scope", <<Parsed(c).scope>>, scope) \in calls[c].result.failed
            /\ Logged(c, "current_date verified")
            /\ DateDiffers(c) => "current_date" \in FailedAttributes(calls[c].result)
            /\ \A i \in 1..Len(requirements) :
                  /\ LoggedWith(c, "requirement verified", requirements[i][1])
                  /\ i \in UnmetRequirements(c) =>
                        requirements[i][1] \in FailedAttributes(calls[c].result)
            /\ Logged(c, "proof verified")
            /\ calls[c].groth16 = "false" => "proof" \in FailedAttributes(calls[c].result)
            /\ Logged(c, "certificate verified")
            /\ LoggedWith(c, "modulus verified", IF ModulusDiffers(c) THEN "false" ELSE "true")

\* a call returned whose scope, date, nationality and proof all failed
ScopeMismatchWitness ==
    \E c \in CallIds :
        /\ Returned(c) /\ ScopeDiffers(c) /\ DateDiffers(c)
        /\ UnmetRequirements(c) # {} /\ calls[c].groth16 = "false"
        /\ {"scope", "current_date", "nationality", "proof"} \subseteq FailedAttributes(calls[c].result)

(* C8: whatever checks fail, the returned report's nullifier and user       *)
(* identifier are the hex encodings of the nullifier and user-identifier    *)
(* public signals of that call's own request.                               *)
IdentifiersExtracted ==
    \A c \in CallIds :
        Returned(c) =>
            /\ calls[c].result.nullifier = bigIntToHex(calls[c].inputs.publicSignals[5])
            /\ calls[c].result.user_identifier = bigIntToHex(calls[c].inputs.publicSignals[45])

\* the second holder's request returned with every reportable check failed,
\* after a call for the first holder, carrying the second holder's
\* identifiers 172 = 0xAC and 4002 = 0xFA2
IdentifiersWitness ==
    \E c, d \in CallIds :
        /\ Returned(c) /\ Returned(d)
        /\ calls[d].result.nullifier = <<10, 11>>
        /\ ScopeDiffers(c) /\ DateDiffers(c) /\ ModulusDiffers(c)
        /\ CertificateInvalid(c) /\ calls[c].groth16 = "false"
        /\ calls[c].result.nullifier = <<10, 12>>
        /\ calls[c].result.user_identifier = <<15, 10, 2>>
        /\ report.nullifier = <<10, 12>>

(* C9: when the proof verifier returns false verify does not throw for it:  *)
(* it records a failed-attribute entry "proof" and goes on to the           *)
(* nullifier extraction, certificate and modulus steps (ending early only   *)
(* where one of those steps itself throws); when it returns true the call   *)
(* adds no "proof" entry.                                                   *)
ProofFailureReported ==
    \A c \in CallIds :
        /\ Ended(c) /\ calls[c].groth16 = "false" =>
              /\ Entry("proof", << >>, << >>) \in calls[c].exposed
              /\ "proof" \in FailedAttributes(report)
              /\ Logged(c, "proof verified")
              /\ report.nullifier # << >>
              /\ Returned(c) =>
                    /\ "proof" \in FailedAttributes(calls[c].result)
                    /\ calls[c].result.nullifier = bigIntToHex(Parsed(c).nullifier)
                    /\ Logged(c, "certificate verified")
                    /\ Logged(c, "modulus verified")
              /\ ~Returned(c) =>
                    /\ calls[c].error \in {"TypeError", "CertificateParseError"}
                    /\ \/ Parsed(c).user_identifier = undefined
                       \/ certificateFromPem(calls[c].inputs.dsc).thrown
        /\ Ended(c) /\ calls[c].groth16 = "true" =>
              "proof" \notin {e.attribute : e \in calls[c].exposed}

\* one call returned after the verifier answered false, another after true
ProofFailureWitness ==
    \E c, d \in CallIds :
        /\ Returned(c) /\ calls[c].groth16 = "false"
        /\ "proof" \in FailedAttributes(calls[c].result)
        /\ Returned(d) /\ calls[d].groth16 = "true"
        /\ "proof" \notin {e.attribute : e \in calls[d].exposed}

(* C10: when the six current-date words of a request differ from the        *)
(* verifier's own current-date encoding the returned report contains a      *)
(* "current_date" failure; when they are equal the call adds none.          *)
CurrentDateChecked ==
    \A c \in CallIds :
        /\ Returned(c) /\ DateDiffers(c) =>
              Entry("current_date", Parsed(c).current_date, calls[c].now) \in calls[c].result.failed
        /\ Logged(c, "current_date verified") /\ DateDiffers(c) =>
              Entry("current_date", Parsed(c).current_date, calls[c].now) \in report.failed
        /\ calls[c].pc # "idle" /\ ~DateDiffers(c) =>
              "current_date" \notin {e.attribute : e \in calls[c].exposed}

\* a stale request returned with the failure, and a fresh one, made after
\* midnight, returned having added none
CurrentDateWitness ==
    \E c, d \in CallIds :
        /\ Returned(c) /\ DateDiffers(c)
        /\ "current_date" \in FailedAttributes(calls[c].result)
        /\ Returned(d) /\ ~DateDiffers(d) /\ Len(Parsed(d).current_date) = 6
        /\ calls[d].now = getCurrentDateFormatted(FirstDay + 1)
        /\ "current_date" \notin {e.attribute : e \in calls[d].exposed}

-----------------------------------------------------------------------------
(* Vocabulary of the requirement properties *)

CountryCoded == {"nationality", "issuing_state"}
Registered(requirement) == requirement[1] \in DOMAIN attributeToPosition

\* call c passed lines 48-52 and went into the checks
KeyResolved(c) == Logged(c, "scope verified")

\* the number of requirements call c evaluated: the first Evaluated(c) of the list
Evaluated(c) ==
    Cardinality({i \in 1..Len(calls[c].log) : calls[c].log[i].msg = "requirement verified"})

\* the characters call c's request reveals for a registered attribute
Observed(c, attribute) ==
    SubSeq(unpackReveal(Parsed(c).revealedData_packed),
           attributeToPosition[attribute][1] + 1, attributeToPosition[attribute][2] + 1)

\* the attributes call c passed to report.exposeAttribute
ExposedAttributes(c) == {e.attribute : e \in calls[c].exposed}

(* C11: for a requirement on nationality or issuing_state, an observed code *)
(* that countryCodes does not hold always yields a failed-attribute entry   *)
(* for the attribute, whatever the expected value; an observed code that it *)
(* holds yields one exactly when its table value differs from the expected  *)
(* value.                                                                   *)
CountryCodeRequirement ==
    \A c \in CallIds : \A a \in CountryCoded :
        KeyResolved(c) =>
            LET asked == {i \in 1..Evaluated(c) : requirements[i][1] = a}
            IN  /\ Observed(c, a) \notin DOMAIN countryCodes /\ asked # {} =>
                      a \in ExposedAttributes(c)
                /\ Observed(c, a) \in DOMAIN countryCodes =>
                      (a \in ExposedAttributes(c)
                          <=> \E i \in asked : countryCodes[Observed(c, a)] # requirements[i][2])

\* a call met an unknown nationality code, which failed, and an
\* issuing-state code whose table value is the expected one, which passed
CountryCodeWitness ==
    \E c \in CallIds :
        /\ calls[c].pc = "returned"
        /\ requirements = << <<"nationality", <<1, 2, 1>>>>, <<"issuing_state", <<1, 2, 1>>>> >>
        /\ Observed(c, "nationality") = <<5, 5>>
        /\ Observed(c, "issuing_state") = <<1, 2>>
        /\ ExposedAttributes(c) = {"nationality"}
        /\ "nationality" \in FailedAttributes(calls[c].result)

(* C12: a requirement whose attribute name is not registered in the         *)
(* attribute-position mapping makes requirement evaluation fail with an     *)
(* UnknownAttribute error.                                                  *)
UnknownAttributeRejected ==
    \A c \in CallIds :
        KeyResolved(c) /\ (\E i \in 1..Len(requirements) : ~Registered(requirements[i])) =>
            calls[c].pc = "thrown" /\ calls[c].error = "UnknownAttribute"

-----------------------------------------------------------------------------
(* Properties of the proof verifier's invocation *)

(* C13: verify does not retry: the proof verifier is invoked at most once   *)
(* per call, its answer once given is never asked for again, and when it    *)
(* rejects the call ends by throwing that failure to the caller, writing    *)
(* no report entry and no log line.                                         *)
NoInternalRetry ==
    [][\A c \in CallIds :
          /\ calls[c].groth16 # "none" => calls'[c].groth16 # "none"
          /\ calls[c].groth16 \notin {"none", "pending"} => calls'[c].groth16 = calls[c].groth16
          /\ calls[c].groth16 = "rejected" /\ calls'[c].pc # calls[c].pc =>
                /\ calls'[c].pc = "thrown"
                /\ calls'[c].error = "ProofVerifierError"
                /\ calls'[c].exposed = calls[c].exposed
                /\ calls'[c].log = calls[c].log
                /\ report' = report]_vars

\* a call whose proof verifier rejected has thrown
ProofVerifierRejectedWitness ==
    \E c \in CallIds :
        /\ calls[c].pc = "thrown"
        /\ calls[c].groth16 = "rejected"
        /\ calls[c].error = "ProofVerifierError"
        /\ "proof" \notin ExposedAttributes(c)

-----------------------------------------------------------------------------
(* Properties of the requirement loop *)

\* whether the value call c's request reveals mismatches a registered requirement
Mismatches(c, requirement) ==
    IF requirement[1] \in CountryCoded
    THEN \/ Observed(c, requirement[1]) \notin DOMAIN countryCodes
         \/ countryCodes[Observed(c, requirement[1])] # requirement[2]
    ELSE Observed(c, requirement[1]) # requirement[2]

\* the positions of the requirements whose attribute is not registered
Unregistered == {i \in 1..Len(requirements) : ~Registered(requirements[i])}

\* the requirements before the first unregistered one
Reachable ==
    {i \in 1..Len(requirements) : \A j \in Unregistered : i < j}

\* the entries call c recorded for the requirements
RequirementEntries(c) ==
    {e \in calls[c].exposed :
        \E i \in 1..Len(requirements) : e.attribute = requirements[i][1]}

\* the attributes the requirement loop records for the list reqs on call c's request
RecordedFor(c, reqs) ==
    {e.attribute :
        e \in CheckRequirements(Running(NewReport, IdleCall), reqs,
                                unpackReveal(Parsed(c).revealedData_packed)).st.exposed}

RequirementEntryDetails ==
    \A c \in CallIds : \A e \in RequirementEntries(c) :
        IF e.attribute \in CountryCoded
        THEN /\ e.value = Observed(c, e.attribute)
             /\ \E i \in 1..Len(requirements) :
                    requirements[i][1] = e.attribute /\ requirements[i][2] = e.expectedValue
        ELSE e.value = << >> /\ e.expectedValue = << >>

(* C15 amended: the entry recorded for an unmet requirement carries only    *)
(* the attribute name, for nationality and issuing_state as for every       *)
(* other attribute.                                                         *)
RequirementEntryNameOnly ==
    \A c \in CallIds : \A e \in RequirementEntries(c) :
        e.value = << >> /\ e.expectedValue = << >>

\* a call recorded an unmet country-coded requirement and an unmet other one
RequirementEntryWitness ==
    \E c \in CallIds :
        /\ calls[c].pc = "returned"
        /\ Entry("nationality", << >>, << >>) \in calls[c].result.failed
        /\ Entry("older_than", << >>, << >>) \in calls[c].result.failed
        /\ \E i \in 1..Len(requirements) :
              requirements[i][1] = "nationality" /\ Mismatches(c, requirements[i])

-----------------------------------------------------------------------------
(* Properties of the QR scanner *)

\* the step is a run of handleQRCodeScan
Handles == Len(nav'.handled) = Len(nav.handled) + 1

\* the payload of the run, and the one notification the step shows, if it shows one
HandledNow == nav'.handled[Len(nav'.handled)]
ShowsOne(toast) == nav'.toasts = Append(nav.toasts, toast)

(* C16: every payload handleQRCodeScan is given ends in one of two          *)
(* outcomes, each with exactly one notification.  When the text is JSON and *)
(* reconstructs into an app, the selected app is set to it, then the tab is *)
(* set to "prove", then the success notification is shown.  When parsing or *)
(* reconstruction fails, the error notification is shown and the selected   *)
(* app and the selected tab are left as they were.                          *)
QRScanOutcome ==
    [][Handles =>
          IF HandledNow.result # "garbage" /\ HandledNow.app \in Apps
          THEN /\ ShowsOne(Toast("check mark", "QR code scanned", "", "success"))
               /\ nav'.ops = <<"setSelectedApp", "setSelectedTab", "toast.show">>
               /\ nav'.selectedApp = HandledNow.app
               /\ nav'.selectedTab = "prove"
          ELSE /\ ShowsOne(Toast("Error", "QR code parsing failed", "", "error"))
               /\ nav'.ops = <<"toast.show">>
               /\ nav'.selectedApp = nav.selectedApp
               /\ nav'.selectedTab = nav.selectedTab]_vars

\* a payload was handled with success, and a later one failed and left the
\* selection of the first in place
QRScanWitness ==
    /\ Len(nav.handled) = 2
    /\ nav.handled[1] = [result |-> "json", app |-> "appA"]
    /\ nav.handled[2].result = "garbage"
    /\ nav.selectedApp = "appA" /\ nav.selectedTab = "prove"
    /\ nav.toasts = << Toast("check mark", "QR code scanned", "", "success"),
                       Toast("Error", "QR code parsing failed", "", "error") >>

-----------------------------------------------------------------------------
(* Properties of the report across calls *)

\* whether lines 48-49 yield a verification key for the inputs
KeyResolves(inputs) ==
    LET alg == getSignatureAlgorithm(inputs.dsc)
    IN  /\ ~alg.thrown
        /\ ~getVkey(inputs.circuit, alg.value.signatureAlgorithm, alg.value.hashFunction).thrown

\* the step in which verify() is called as call c
Begins(c) == calls[c].pc = "idle" /\ calls'[c].pc # "idle"

\* the step in which call c ends by throwing
Throws(c) == calls[c].pc # "thrown" /\ calls'[c].pc = "thrown"

(* C17: a verify call that ends in a thrown error leaves the verifier's     *)
(* report exactly as it was when the call was made: no failed-attribute     *)
(* entry, nullifier or user identifier of the aborted call remains.         *)
ThrownCallLeavesReport ==
    [][\A c \in CallIds :
          Throws(c) /\ ~calls'[c].overlapped => report' = calls'[c].before]_vars

(* C18: the signature algorithm is extracted and the verification key       *)
(* resolved before the public signals are parsed, before any report entry   *)
(* is written and before the proof verifier is invoked: a call whose key    *)
(* does not resolve throws with the report as it was, having recorded and   *)
(* logged nothing and never invoked the proof verifier, and only a call     *)
(* whose key resolved has an entry, a log line or a proof verification.     *)
KeyResolutionFirst ==
    [][\A c \in CallIds :
          /\ Begins(c) /\ ~KeyResolves(calls'[c].inputs) =>
                /\ calls'[c].pc = "thrown"
                /\ calls'[c].error \in {"CertificateParseError", "UnknownVerificationKey"}
                /\ report' = report
                /\ calls'[c].exposed = {} /\ calls'[c].log = << >>
                /\ calls'[c].groth16 = "none"
          /\ \/ calls'[c].exposed # {}
             \/ calls'[c].log # << >>
             \/ calls'[c].groth16 # "none"
             => KeyResolves(calls'[c].inputs)]_vars

\* a call with a differing scope and an unknown circuit threw at the key
\* resolution and recorded nothing
KeyResolutionWitness ==
    \E c \in CallIds :
        /\ calls[c].pc = "thrown"
        /\ calls[c].error = "UnknownVerificationKey"
        /\ ScopeDiffers(c)
        /\ calls[c].exposed = {} /\ calls[c].groth16 = "none"
        /\ report = calls[c].before

(* C19: the failed-attribute entries held by the verifier never shrink: an  *)
(* entry in the report before a step of verify is in it after the step,     *)
(* and verify never replaces the report by a new or emptied one.            *)
ReportNeverShrinks ==
    [][/\ report.failed \subseteq report'.failed
       /\ \A c \in CallIds : Begins(c) => calls'[c].before = report
       /\ report # NewReport => report' # NewReport]_vars

\* the report holds the entry of a first call and the different entry of a
\* second call made after it
ReportAccumulatesWitness ==
    /\ calls[1].pc = "returned" /\ calls[2].pc = "returned"
    /\ ~calls[2].overlapped
    /\ ExposedAttributes(1) = {"scope"}
    /\ ExposedAttributes(2) = {"current_date"}
    /\ FailedAttributes(report) = {"scope", "current_date"}

====
